---- MODULE Spec2Model ----
(***************************************************************************)
(* Selection / hover bookkeeping of the Bars and Graph mark views, the     *)
(* colour cycling of Mark, and the tick selection of the axis              *)
(* TickFormatter mixin of bqplot.                                          *)
(*                                                                         *)
(* JavaScript values are encoded so that every variable keeps one TLA+     *)
(* type: an index array is a sequence of naturals and the JavaScript null  *)
(* in its place is the sequence Null; a scalar index that may be null is   *)
(* an integer with NullPt for null.                                        *)
(***************************************************************************)
EXTENDS Integers, Sequences, FiniteSets, TLC

\* ---------------------------------------------------------------- bounds
MaxBars == 3       \* largest number of bars (model.mark_data.length)
MaxNodes == 3      \* number of nodes of the graph
MaxColors == 3     \* longest colors list
MaxIndex == 7      \* largest index handed to get_colors
MaxExp == 8        \* log domains lie between 10^-MaxExp and 9 * 10^MaxExp
MaxCats == 4       \* largest ordinal domain
MaxTicks == 3      \* largest num_ticks
MaxDays == 400     \* latest day of a date tick

\* ------------------------------------------------------ JavaScript values
Null == << -1 >>           \* null where an index array is expected
NullPt == -1               \* null where a single index is expected
Undefined == -2            \* undefined where a number is expected
NullTicks == << << -1 >> >>       \* null where an array of ticks is expected
UndefinedTicks == << << -2 >> >>  \* undefined in the same place

VARIABLES
    view_name,               \* the view class of the mark: "Bars" or "Graph"
    \* Bars view and its model
    select_bars,             \* model.get("select_bars")
    idx_selected,            \* model.get("idx_selected")
    bars_selected_indices,   \* Bars view: this.selected_indices
    mark_data_length,        \* model.mark_data.length
    selected_style,          \* TRUE iff the selected_style dict has keys
    unselected_style,        \* TRUE iff the unselected_style dict has keys
    sel_styled,              \* bar groups carrying selected_style
    unsel_styled,            \* bar groups carrying unselected_style
    bars_last,               \* the last Bars event and the selection before it
    \* Graph view and its model
    interactions,            \* model.get("interactions"): [click, hover]
    event_listeners,         \* Graph view: this.event_listeners
    selected,                \* model.get("selected")
    graph_selected_indices,  \* Graph view: this.selected_indices
    hovered_point,           \* model.get("hovered_point")
    hovered_index,           \* Graph view: this.hovered_index
    graph_last,              \* the last Graph event and the selection before it
    dirty,                   \* GraphModel: this.dirty
    invoked,                 \* the view method the last Graph event invoked
    \* colours of a mark
    colors,                  \* model.get("colors")
    color_scale,             \* TRUE iff this.scales.color is defined
    fill,                    \* the colour returned by the last call
    color_last,              \* the last colour call and its arguments
    \* axis (TickFormatter mixin)
    tick_values,             \* model.get_typed_field("tick_values")
    num_ticks,               \* this.num_ticks
    axis_type,               \* this.axis_scale.model.type
    axis_domain,             \* this.axis_scale.scale.domain()
    scale_ticks,             \* this.axis_scale.scale.ticks() of a non-log scale
    axis_tickValues,         \* the argument of the last this.axis.tickValues()
    \* date format of an axis
    date_ticks,              \* the argument ticks of date_sc_format
    date_format              \* the format strings date_sc_format returned

barsvars == << select_bars, idx_selected, bars_selected_indices,
               mark_data_length, selected_style, unselected_style,
               sel_styled, unsel_styled, bars_last >>
graphvars == << interactions, event_listeners, selected,
                graph_selected_indices, hovered_point, hovered_index,
                graph_last >>
scalevars == << dirty, invoked >>
colorvars == << colors, color_scale, fill, color_last >>
axisvars == << tick_values, num_ticks, axis_type, axis_domain, scale_ticks,
               axis_tickValues >>
datevars == << date_ticks, date_format >>

\* -------------------------------------------------- array helper functions
Elems(s) == { s[k] : k \in 1..Len(s) }

\* Array.prototype.indexOf: first position (from 0) of x, or -1
indexOf(s, x) ==
    IF x \in Elems(s)
    THEN (CHOOSE k \in 1..Len(s) : s[k] = x /\ \A j \in 1..(k-1) : s[j] # x) - 1
    ELSE -1

\* Array.prototype.splice(pos, 1): drop the element at position pos (from 0)
splice(s, pos) == [ k \in 1..(Len(s) - 1) |-> IF k <= pos THEN s[k] ELSE s[k+1] ]

\* _.range(start, stop): start, start+1, ..., stop-1
range(start, stop) ==
    IF stop > start THEN [ k \in 1..(stop - start) |-> start + k - 1 ] ELSE << >>

\* d3.min / d3.max of a non-empty array of numbers
d3_min(s) == CHOOSE x \in Elems(s) : \A y \in Elems(s) : x <= y
d3_max(s) == CHOOSE x \in Elems(s) : \A y \in Elems(s) : x >= y

\* ================================================================== Bars
\* Bars.set_style_on_elements: the bar groups a style is put on
set_style_on_elements(style, indices, n) ==
    IF indices = Null \/ Len(indices) = 0 THEN {}
    ELSE IF ~style THEN {}
    ELSE { i \in 0..(n-1) : indexOf(indices, i) # -1 }

\* Mark.apply_styles: the index array handed to the unselected style.
\* An empty array is truthy in JavaScript, only null gives [].
unselected_indices(sel, n) ==
    IF sel = Null THEN << >>
    ELSE SelectSeq(range(0, n), LAMBDA i : i \notin Elems(sel))

\* Mark.apply_styles with the view's selected_indices sel and n bars:
\* both styles are cleared everywhere, then put on again
apply_styles_sel(sel, n) == set_style_on_elements(selected_style, sel, n)
apply_styles_unsel(sel, n) ==
    set_style_on_elements(unselected_style, unselected_indices(sel, n), n)

\* the local array idx_selected of bar_click_handler: deep copy of the
\* model's attribute (jQuery.extend(true, [], null) is [])
copy_idx_selected(sel) == IF sel = Null THEN << >> ELSE sel

\* shift_fill that forgets the bars below the minimum
shift_fill_upward_only(idx, index, n) ==
    LET max_index == IF Len(idx) # 0 THEN d3_max(idx) ELSE n
    IN  IF index > max_index THEN range(max_index + 1, index) ELSE << >>

\* the indices pushed by the shift branch before the clicked one
shift_fill(idx, index, n) ==
    LET min_index == IF Len(idx) # 0 THEN d3_min(idx) ELSE -1
        max_index == IF Len(idx) # 0 THEN d3_max(idx) ELSE n
    IN  IF index > max_index THEN range(max_index + 1, index)
        ELSE IF index < min_index THEN range(index + 1, min_index)
        ELSE << >>

\* click_returns_early without the return of the shift branch
click_never_returns_early(idx, index, ctrlKey, shiftKey) == FALSE

\* TRUE iff bar_click_handler returns before writing anything
click_returns_early(idx, index, ctrlKey, shiftKey) ==
    /\ ~(indexOf(idx, index) > -1 /\ ctrlKey)
    /\ shiftKey
    /\ indexOf(idx, index) > -1

\* click_selection whose plain click does not empty the array first
click_selection_not_emptied(idx, index, ctrlKey, shiftKey, n) ==
    LET elem_index == indexOf(idx, index)
    IN  IF elem_index > -1 /\ ctrlKey THEN splice(idx, elem_index)
        ELSE IF shiftKey THEN Append(idx \o shift_fill(idx, index, n), index)
        ELSE Append(idx, index)

\* click_selection whose ctrl branch removes everything from the clicked
\* position on (splice without a delete count)
click_selection_splice_rest(idx, index, ctrlKey, shiftKey, n) ==
    LET elem_index == indexOf(idx, index)
    IN  IF elem_index > -1 /\ ctrlKey THEN SubSeq(idx, 1, elem_index)
        ELSE IF shiftKey THEN Append(idx \o shift_fill(idx, index, n), index)
        ELSE IF ~ctrlKey THEN << index >>
        ELSE Append(idx, index)

\* the local array idx_selected when bar_click_handler reaches model.set
click_selection(idx, index, ctrlKey, shiftKey, n) ==
    LET elem_index == indexOf(idx, index)
    IN  IF elem_index > -1 /\ ctrlKey THEN splice(idx, elem_index)
        ELSE IF shiftKey THEN Append(idx \o shift_fill(idx, index, n), index)
        ELSE IF ~ctrlKey THEN << index >>
        ELSE Append(idx, index)

\* null_if_empty that writes the empty array as it is
keep_empty(s) == s

\* the value written to the model: null instead of an empty array
null_if_empty(s) == IF Len(s) = 0 THEN Null ELSE s

bar_click_handler(index, ctrlKey, shiftKey) ==
    LET idx == copy_idx_selected(idx_selected)
        new == click_selection(idx, index, ctrlKey, shiftKey, mark_data_length)
        ev  == [ op |-> "bar_click", index |-> index, ctrlKey |-> ctrlKey,
                 shiftKey |-> shiftKey, before |-> idx_selected,
                 view_before |-> bars_selected_indices ]
    IN  /\ bars_last' = ev
        /\ IF select_bars /\ ~click_returns_early(idx, index, ctrlKey, shiftKey)
           THEN /\ idx_selected' = null_if_empty(new)
                /\ bars_selected_indices' = new
                /\ sel_styled' = apply_styles_sel(new, mark_data_length)
                /\ unsel_styled' = apply_styles_unsel(new, mark_data_length)
           ELSE UNCHANGED << idx_selected, bars_selected_indices,
                             sel_styled, unsel_styled >>
        /\ UNCHANGED << select_bars, mark_data_length, selected_style,
                        unselected_style >>

\* reset_selection that does not look at select_bars
bars_reset_selection_unguarded ==
    /\ bars_last' = [ op |-> "background_click", index |-> NullPt,
                      ctrlKey |-> FALSE, shiftKey |-> FALSE,
                      before |-> idx_selected,
                      view_before |-> bars_selected_indices ]
    /\ idx_selected' = Null
    /\ bars_selected_indices' = Null
    /\ sel_styled' = {}
    /\ unsel_styled' = {}
    /\ UNCHANGED << select_bars, mark_data_length, selected_style,
                    unselected_style >>

\* reset_selection that leaves the view's selected_indices alone
bars_reset_selection_model_only ==
    /\ bars_last' = [ op |-> "background_click", index |-> NullPt,
                      ctrlKey |-> FALSE, shiftKey |-> FALSE,
                      before |-> idx_selected,
                      view_before |-> bars_selected_indices ]
    /\ IF select_bars
       THEN /\ idx_selected' = Null
            /\ sel_styled' = {}
            /\ unsel_styled' = {}
            /\ UNCHANGED bars_selected_indices
       ELSE UNCHANGED << idx_selected, bars_selected_indices,
                         sel_styled, unsel_styled >>
    /\ UNCHANGED << select_bars, mark_data_length, selected_style,
                    unselected_style >>

bars_reset_selection ==
    /\ bars_last' = [ op |-> "background_click", index |-> NullPt,
                      ctrlKey |-> FALSE, shiftKey |-> FALSE,
                      before |-> idx_selected,
                      view_before |-> bars_selected_indices ]
    /\ IF select_bars
       THEN /\ idx_selected' = Null
            /\ bars_selected_indices' = Null
            /\ sel_styled' = {}
            /\ unsel_styled' = {}
       ELSE UNCHANGED << idx_selected, bars_selected_indices,
                         sel_styled, unsel_styled >>
    /\ UNCHANGED << select_bars, mark_data_length, selected_style,
                    unselected_style >>

\* the model triggers data_updated with n bars and the view redraws
bars_draw(n) ==
    /\ n # mark_data_length
    /\ mark_data_length' = n
    /\ sel_styled' = apply_styles_sel(bars_selected_indices, n)
    /\ unsel_styled' = apply_styles_unsel(bars_selected_indices, n)
    /\ bars_last' = [ op |-> "data_updated", index |-> NullPt,
                      ctrlKey |-> FALSE, shiftKey |-> FALSE,
                      before |-> idx_selected,
                      view_before |-> bars_selected_indices ]
    /\ UNCHANGED << select_bars, idx_selected, bars_selected_indices,
                    selected_style, unselected_style >>

NoBarsEvent == [ op |-> "render", index |-> NullPt, ctrlKey |-> FALSE,
                 shiftKey |-> FALSE, before |-> Null, view_before |-> Null ]

\* Bars.render followed by the first draw
BarsInit ==
    /\ select_bars \in BOOLEAN
    /\ idx_selected = Null
    /\ bars_selected_indices = idx_selected
    /\ mark_data_length \in 0..MaxBars
    /\ selected_style \in BOOLEAN
    /\ unselected_style \in BOOLEAN
    /\ sel_styled = {}
    /\ unsel_styled = {}
    /\ bars_last = NoBarsEvent

BarClick ==
    \E index \in 0..(mark_data_length - 1), ctrlKey \in BOOLEAN, shiftKey \in BOOLEAN :
        bar_click_handler(index, ctrlKey, shiftKey)
BarsBackgroundClick == bars_reset_selection
BarsDataUpdated == \E n \in 0..MaxBars : bars_draw(n)

\* the select_bars attribute of the model is changed by the kernel; the
\* view has no listener for it and reads it at the next click
SelectBarsChanged ==
    /\ select_bars' = ~select_bars
    /\ bars_last' = [ op |-> "select_bars_changed", index |-> NullPt,
                      ctrlKey |-> FALSE, shiftKey |-> FALSE,
                      before |-> idx_selected,
                      view_before |-> bars_selected_indices ]
    /\ UNCHANGED << idx_selected, bars_selected_indices, mark_data_length,
                    selected_style, unselected_style, sel_styled,
                    unsel_styled >>

BarsNext ==
    BarClick \/ BarsBackgroundClick \/ BarsDataUpdated \/ SelectBarsChanged

\* ================================================================= Graph
ClickModes == { "none", "tooltip", "select" }
HoverModes == { "none", "tooltip" }
Nodes == 0..(MaxNodes - 1)

\* Backbone Model.set: a change:<attribute> event is triggered only when the
\* new value differs from the current one
changed(old, new) == old # new

\* Graph.update_selected, the change:selected listener
update_selected(old, value) ==
    IF changed(old, value) THEN value ELSE graph_selected_indices

\* Graph.update_hovered, the change:hovered_point listener
update_hovered(old, value) ==
    IF changed(old, value)
    THEN (IF value = NullPt THEN Null ELSE << value >>)
    ELSE hovered_index

\* reset_interactions: "set all the event listeners to blank functions"
reset_interactions ==
    [ node_clicked |-> "noop", parent_clicked |-> "noop", mouse_over |-> "noop" ]

\* reset_click: the two click listeners become blank functions
reset_click(l) == [ l EXCEPT !.node_clicked = "noop", !.parent_clicked = "noop" ]

\* the listeners Graph.process_interactions leaves behind
process_listeners(l, i) ==
    IF i.click = "none" /\ i.hover = "none" THEN reset_interactions
    ELSE LET c == IF i.click = "tooltip"
                  THEN [ l EXCEPT !.node_clicked = "refresh_tooltip",
                                  !.parent_clicked = "hide_tooltip" ]
                  ELSE IF i.click = "select"
                  THEN [ l EXCEPT !.node_clicked = "click_handler",
                                  !.parent_clicked = "reset_selection" ]
                  ELSE reset_click(l)
         IN  IF i.hover = "tooltip"
             THEN [ c EXCEPT !.mouse_over = "refresh_tooltip" ]
             ELSE c

\* TRUE iff Graph.process_interactions calls this.reset_hover()
process_resets_hover(i) ==
    /\ ~(i.click = "none" /\ i.hover = "none")
    /\ i.hover = "none"

GraphEvent(op, index, accelKey) ==
    [ op |-> op, index |-> index, accelKey |-> accelKey,
      before |-> selected, view_before |-> graph_selected_indices ]

\* Graph.reset_hover
reset_hover ==
    /\ hovered_point' = NullPt
    /\ hovered_index' = Null

\* hover_handler that does not write the model
hover_handler_view_only(index) ==
    /\ hovered_index' = << index >>
    /\ UNCHANGED hovered_point

\* Graph.hover_handler
hover_handler(index) ==
    /\ hovered_point' = index
    /\ hovered_index' = update_hovered(hovered_point, index)

\* node_selection whose accel click on an unselected node replaces the list
node_selection_accel_replaces(idx, index, accelKey) ==
    LET sel == IF idx = Null THEN << >> ELSE idx
        elem_index == indexOf(sel, index)
    IN  IF elem_index > -1 /\ accelKey THEN splice(sel, elem_index)
        ELSE << index >>

\* node_selection whose plain click does not empty the list first
node_selection_not_emptied(idx, index, accelKey) ==
    LET sel == IF idx = Null THEN << >> ELSE idx
        elem_index == indexOf(sel, index)
    IN  IF elem_index > -1 /\ accelKey THEN splice(sel, elem_index)
        ELSE Append(sel, index)

\* the local array selected when Graph.click_handler reaches model.set
node_selection(idx, index, accelKey) ==
    LET sel == IF idx = Null THEN << >> ELSE idx
        elem_index == indexOf(sel, index)
    IN  IF elem_index > -1 /\ accelKey THEN splice(sel, elem_index)
        ELSE IF accelKey THEN Append(sel, index)
        ELSE << index >>

\* Graph.click_handler
click_handler(index, accelKey) ==
    LET value == null_if_empty(node_selection(selected, index, accelKey))
    IN  /\ selected' = value
        /\ graph_selected_indices' = update_selected(selected, value)

\* Graph.reset_selection
graph_reset_selection ==
    /\ selected' = Null
    /\ graph_selected_indices' = Null

\* Graph.process_interactions, the change:interactions listener
process_interactions(i) ==
    /\ i # interactions
    /\ interactions' = i
    /\ event_listeners' = process_listeners(event_listeners, i)
    /\ IF process_resets_hover(i) THEN reset_hover
       ELSE UNCHANGED << hovered_point, hovered_index >>
    /\ graph_last' = GraphEvent("interactions", NullPt, FALSE)
    /\ UNCHANGED << selected, graph_selected_indices >>

\* a click on node index: the node_clicked listener is dispatched
NodeClicked ==
    \E index \in Nodes, ctrlKey \in BOOLEAN, metaKey \in BOOLEAN :
        /\ graph_last' = GraphEvent("node_click", index, ctrlKey \/ metaKey)
        /\ IF event_listeners.node_clicked = "click_handler"
           THEN click_handler(index, ctrlKey \/ metaKey)
           ELSE UNCHANGED << selected, graph_selected_indices >>
        /\ UNCHANGED << interactions, event_listeners, hovered_point,
                        hovered_index >>

\* bg_clicked of the figure: the parent_clicked listener is dispatched
ParentClicked ==
    /\ graph_last' = GraphEvent("background_click", NullPt, FALSE)
    /\ IF event_listeners.parent_clicked = "reset_selection"
       THEN graph_reset_selection
       ELSE UNCHANGED << selected, graph_selected_indices >>
    /\ UNCHANGED << interactions, event_listeners, hovered_point,
                    hovered_index >>

\* mouseover on node index, bound in Graph.draw
NodeMouseOver ==
    \E index \in Nodes :
        /\ hover_handler(index)
        /\ graph_last' = GraphEvent("mouseover", index, FALSE)
        /\ UNCHANGED << interactions, event_listeners, selected,
                        graph_selected_indices >>

\* mouseout of a node, bound in Graph.draw
NodeMouseOut ==
    /\ reset_hover
    /\ graph_last' = GraphEvent("mouseout", NullPt, FALSE)
    /\ UNCHANGED << interactions, event_listeners, selected,
                    graph_selected_indices >>

InteractionsChanged ==
    \E c \in ClickModes, h \in HoverModes :
        process_interactions([ click |-> c, hover |-> h ])

\* Graph.render: event_listeners = {} and process_interactions
GraphInit ==
    /\ interactions \in [ click : ClickModes, hover : HoverModes ]
    /\ event_listeners = process_listeners(reset_interactions, interactions)
    /\ selected = Null
    /\ graph_selected_indices = selected
    /\ hovered_point = NullPt
    /\ hovered_index = Null
    /\ graph_last = [ op |-> "render", index |-> NullPt, accelKey |-> FALSE,
                      before |-> Null, view_before |-> Null ]

GraphNext ==
    \/ NodeClicked
    \/ ParentClicked
    \/ NodeMouseOver
    \/ NodeMouseOut
    \/ InteractionsChanged

\* ------------------------------------------- Graph: data and scale domains
PositionalScales == { "x", "y" }

\* the domain_changed listeners of Graph.set_positional_scales
domain_changed_listener == IF ~dirty THEN "update_position" ELSE "none"

\* scale sc of the mark emits domain_changed
DomainChanged ==
    \E sc \in PositionalScales :
        /\ invoked' = domain_changed_listener
        /\ graph_last' = GraphEvent("domain_changed", NullPt, FALSE)
        /\ UNCHANGED << dirty, interactions, event_listeners, selected,
                        graph_selected_indices, hovered_point, hovered_index >>

\* GraphModel.update_data up to update_domains: the model is dirty while it
\* recomputes its data and the domains of its scales
UpdateDataBegin ==
    /\ ~dirty
    /\ dirty' = TRUE
    /\ invoked' = "none"
    /\ graph_last' = GraphEvent("update_data", NullPt, FALSE)
    /\ UNCHANGED << interactions, event_listeners, selected,
                    graph_selected_indices, hovered_point, hovered_index >>

\* the end of GraphModel.update_data: dirty is reset and data_updated makes
\* the view draw
UpdateDataEnd ==
    /\ dirty
    /\ dirty' = FALSE
    /\ invoked' = "draw"
    /\ graph_last' = GraphEvent("data_updated", NullPt, FALSE)
    /\ UNCHANGED << interactions, event_listeners, selected,
                    graph_selected_indices, hovered_point, hovered_index >>

\* the events of the browser reach the view only between two runs of
\* update_data
GraphUserEvent ==
    /\ ~dirty
    /\ GraphNext
    /\ invoked' = "none"
    /\ UNCHANGED dirty

ScalesInit == dirty = FALSE /\ invoked = "draw"

\* ================================================================ colours
Palette == 1..2                 \* the colours a colors list is made of
UndefinedColor == 0             \* colors[NaN], i.e. undefined
DataColors == { Undefined, 1, 2 }   \* data.color of a node: undefined or a value

\* color_scale.scale(c) of the d3 colour scale: a colour outside the list
color_scale_scale(c) == 10 + c

\* colors[k] of JavaScript (k from 0); undefined when index % 0 is NaN
color_at(len, k) == IF len = 0 THEN UndefinedColor ELSE colors[k + 1]

\* get_colors that repeats the last colour instead of cycling
get_colors_clamped(index) ==
    LET len == Len(colors)
    IN  color_at(len, IF len = 0 THEN 0
                      ELSE IF index < len THEN index ELSE len - 1)

\* Mark.get_colors
get_colors(index) ==
    LET len == Len(colors)
    IN  color_at(len, IF len = 0 THEN 0 ELSE index % len)

\* Graph.get_node_color
get_node_color(data_color, index) ==
    LET len == Len(colors)
    IN  IF color_scale /\ data_color # Undefined
        THEN color_scale_scale(data_color)
        ELSE color_at(len, IF len = 0 THEN 0 ELSE index % len)

ColorLists == UNION { [ 1..n -> Palette ] : n \in 0..MaxColors }

ColorsInit ==
    /\ colors \in ColorLists
    /\ color_scale \in BOOLEAN
    /\ fill = UndefinedColor
    /\ color_last = [ op |-> "render", index |-> 0, data_color |-> Undefined ]

GetColors ==
    \E index \in 0..MaxIndex :
        /\ fill' = get_colors(index)
        /\ color_last' = [ op |-> "get_colors", index |-> index,
                           data_color |-> Undefined ]
        /\ UNCHANGED << colors, color_scale >>

GetNodeColor ==
    \E index \in 0..MaxIndex, data_color \in DataColors :
        /\ fill' = get_node_color(data_color, index)
        /\ color_last' = [ op |-> "get_node_color", index |-> index,
                           data_color |-> data_color ]
        /\ UNCHANGED << colors, color_scale >>

ColorsNext == GetColors \/ GetNodeColor

\* =================================================================== axis
\* A number on an axis is a pair <<k, e>> standing for k * 10^e; on a log
\* scale 1 <= k <= 9.  Logarithms are kept in units of 10^-5.
Lg == << 0, 30103, 47712, 60206, 69897, 77815, 84510, 90309, 95424 >>
Unit == 100000             \* 1 in units of 10^-5
Tol == 100                 \* 0.001 in units of 10^-5
Lg2 == 30103               \* 0.30103
Lg5 == 69897               \* 0.69897

Abs(x) == IF x < 0 THEN -x ELSE x

\* Math.log10 of the number v
log10(v) == v[2] * Unit + Lg[v[1]]

\* v <= w for numbers of a log scale
leq(v, w) == v[2] < w[2] \/ (v[2] = w[2] /\ v[1] <= w[1])

\* Math.abs(x % m): the remainder of JavaScript keeps the sign of x
abs_rem(x, m) == Abs(x) % m

\* Math.round(x / 10) for x >= 0 in units of 10^-5: halves are rounded up
round_tenth(x) == (x + 5 * Unit) \div (10 * Unit)

\* scale.ticks() of a d3 log scale with domain <<d0, d1>>: 1..9 times every
\* power of ten from floor(log u) to ceil(log v), cut to the extent [u, v]
log_ticks(domain) ==
    LET u == IF leq(domain[1], domain[2]) THEN domain[1] ELSE domain[2]
        v == IF leq(domain[1], domain[2]) THEN domain[2] ELSE domain[1]
        i == u[2]
        j == IF v[1] = 1 THEN v[2] ELSE v[2] + 1
        all == [ t \in 1..(9 * (j - i) + 1) |->
                   << ((t - 1) % 9) + 1, i + ((t - 1) \div 9) >> ]
    IN  SelectSeq(all, LAMBDA t : leq(u, t) /\ leq(t, v))

\* keep_125 that compares the remainder with log10(2) only, not log10(5)
keep_12(t) ==
    LET r == abs_rem(log10(t), Unit)
    IN  \/ Abs(r) < Tol
        \/ Abs(r - Unit) < Tol
        \/ Abs(r - Lg2) < Tol

\* the tick filter of the branch 2 <= oom < 7
keep_125(t) ==
    LET r == abs_rem(log10(t), Unit)
    IN  \/ Abs(r) < Tol
        \/ Abs(r - Unit) < Tol
        \/ Abs(r - Lg2) < Tol
        \/ Abs(r - Lg5) < Tol

\* the tick filter of the branch oom >= 7 with step s
keep_step(t, s) ==
    LET r == abs_rem(log10(t), s * Unit)
    IN  Abs(r) < Tol \/ Abs(r - s * Unit) < Tol

\* oom of set_tick_values
orders_of_magnitude(domain) == Abs(log10(domain[2]) - log10(domain[1]))

\* the ticks set_tick_values uses on a log scale
thinned_log_ticks(domain) ==
    LET allticks == log_ticks(domain)
        oom == orders_of_magnitude(domain)
    IN  IF oom < 2 * Unit THEN allticks
        ELSE IF oom < 7 * Unit THEN SelectSeq(allticks, keep_125)
        ELSE SelectSeq(allticks, LAMBDA t : keep_step(t, round_tenth(oom)))

\* _.range(0, len, step) for step >= 1
range_step(len, step) ==
    [ k \in 1..((len + step - 1) \div step) |-> (k - 1) * step ]

\* get_ticks() without argument.  On a positional scale the j-th of the n
\* equally spaced ticks lo + j * (hi - lo) / (n - 1) is written
\* <<j, n - 1, lo, hi>>.
get_ticks ==
    IF num_ticks < 2 THEN << >>
    ELSE IF axis_type = "ordinal"
    THEN IF Len(axis_domain) <= num_ticks THEN axis_domain
         ELSE LET step == Len(axis_domain) \div (num_ticks - 1)
                  indices == range_step(Len(axis_domain), step)
              IN  [ k \in 1..Len(indices) |-> axis_domain[indices[k] + 1] ]
    ELSE [ k \in 1..num_ticks |->
             << k - 1, num_ticks - 1 >> \o axis_domain[1]
                                        \o axis_domain[Len(axis_domain)] ]

\* chosen_tick_values that looks at num_ticks before tick_values
chosen_tick_values_num_ticks_first ==
    IF num_ticks # Undefined /\ num_ticks # NullPt THEN get_ticks
    ELSE IF tick_values # UndefinedTicks /\ tick_values # NullTicks
            /\ Len(tick_values) > 0
    THEN tick_values
    ELSE IF axis_type = "ordinal" THEN axis_domain
    ELSE IF axis_type = "log" THEN thinned_log_ticks(axis_domain)
    ELSE scale_ticks

\* the argument of this.axis.tickValues() in set_tick_values
chosen_tick_values ==
    IF tick_values # UndefinedTicks /\ tick_values # NullTicks
       /\ Len(tick_values) > 0
    THEN tick_values
    ELSE IF num_ticks # Undefined /\ num_ticks # NullPt THEN get_ticks
    ELSE IF axis_type = "ordinal" THEN axis_domain
    ELSE IF axis_type = "log" THEN thinned_log_ticks(axis_domain)
    ELSE scale_ticks

set_tick_values ==
    /\ axis_tickValues' = chosen_tick_values
    /\ UNCHANGED << tick_values, num_ticks, axis_type, axis_domain,
                    scale_ticks >>

LogNumbers == { << k, e >> : k \in { 1, 3 }, e \in (-MaxExp)..MaxExp }
LinearNumbers == { << k, 0 >> : k \in 0..2 }
OrdinalDomains == { [ k \in 1..n |-> << k, 0 >> ] : n \in 0..MaxCats }
TickValueChoices ==
    { UndefinedTicks, NullTicks, << >>, << << 7, 0 >> >>,
      << << 7, 0 >>, << 9, 0 >> >> }
NumTicksChoices == { Undefined, NullPt } \cup 0..MaxTicks
\* what scale.ticks() of a linear or date scale may answer
ScaleTickChoices == { << << 0, 0 >>, << 1, 0 >>, << 2, 0 >> >>,
                      << << 0, 0 >>, << 2, 0 >> >> }

AxisInit ==
    /\ tick_values \in TickValueChoices
    /\ num_ticks \in NumTicksChoices
    /\ axis_type \in { "ordinal", "log", "linear", "date" }
    /\ \/ /\ axis_type = "ordinal"
          /\ axis_domain \in OrdinalDomains
          /\ scale_ticks = << >>
       \/ /\ axis_type = "log"
          /\ axis_domain \in { d \in LogNumbers \X LogNumbers : d[1] # d[2] }
          /\ scale_ticks = << >>
       \/ /\ axis_type \in { "linear", "date" }
          /\ axis_domain \in { d \in LinearNumbers \X LinearNumbers : d[1] # d[2] }
          /\ scale_ticks \in ScaleTickChoices
    /\ axis_tickValues = UndefinedTicks

AxisNext == set_tick_values

\* ============================================================ date format
\* A time or a duration in milliseconds is a pair <<d, ms>> standing for
\* d * MsPerDay + ms with 0 <= ms < MsPerDay.
MsPerDay == 86400000

normalize(d, ms) == << d + (ms \div MsPerDay), ms % MsPerDay >>

\* a *= k
times(a, k) == normalize(a[1] * k, a[2] * k)

\* a < b
less(a, b) == a[1] < b[1] \/ (a[1] = b[1] /\ a[2] < b[2])

\* Math.abs(b - a)
abs_diff(a, b) ==
    IF less(a, b) THEN normalize(b[1] - a[1], b[2] - a[2])
    ELSE normalize(a[1] - b[1], a[2] - b[2])

\* Math.floor(diff / div) == 0 for diff >= 0 and div > 0
floor_is_zero(diff, div) == less(diff, div)

\* the values div takes in date_sc_format
div_second == << 0, 1000 >>
div_minute == times(div_second, 60)
div_hour == times(div_minute, 60)
div_day == times(div_hour, 24)
div_month == times(div_day, 27)
div_year == times(div_month, 12)

\* the format strings of the list date_sc_format returns for ticks
date_sc_format(ticks) ==
    LET diff == abs_diff(ticks[1], ticks[2])
    IN  IF floor_is_zero(diff, div_second) THEN << ".%L", ":%S", "%I:%M" >>
        ELSE IF floor_is_zero(diff, div_minute) THEN << ":%S", "%I:%M" >>
        ELSE IF floor_is_zero(diff, div_hour) THEN << "%I:%M", "%I %p" >>
        ELSE IF floor_is_zero(diff, div_day) THEN << "%I %p", "%b %d" >>
        ELSE IF floor_is_zero(diff, div_month) THEN << "%b %d", "%b %Y" >>
        ELSE IF floor_is_zero(diff, div_year) THEN << "%b %d", "%b %Y" >>
        ELSE << "%b %d", "%b %Y", "%Y" >>

\* guess_tick_format on a date scale calls date_sc_format
DateScFormat ==
    /\ date_format' = date_sc_format(date_ticks)
    /\ UNCHANGED date_ticks

DayChoices == { 0, 1, 26, 27, 323, 324, 330, 365, MaxDays }
MsChoices == { 0, 999, 1000, 59999, 60000, 3599999, 3600000, MsPerDay - 1 }
Times == { << d, ms >> : d \in DayChoices, ms \in MsChoices }

DateInit ==
    /\ date_ticks \in { << t0, t >> : t0 \in { << 0, 0 >>, << 1, 1000 >> },
                                               t \in Times }
    /\ date_format = << >>

DateIdle ==
    /\ date_ticks = << << 0, 0 >>, << 0, 0 >> >>
    /\ date_format = << >>

\* ========================================================= specifications
vars == << view_name, barsvars, graphvars, scalevars, colorvars, axisvars,
          datevars >>

\* the parts of the state a specification does not exercise
BarsIdle ==
    /\ select_bars = FALSE
    /\ idx_selected = Null
    /\ bars_selected_indices = Null
    /\ mark_data_length = 0
    /\ selected_style = FALSE
    /\ unselected_style = FALSE
    /\ sel_styled = {}
    /\ unsel_styled = {}
    /\ bars_last = NoBarsEvent
GraphIdle ==
    /\ interactions = [ click |-> "none", hover |-> "none" ]
    /\ event_listeners = reset_interactions
    /\ selected = Null
    /\ graph_selected_indices = Null
    /\ hovered_point = NullPt
    /\ hovered_index = Null
    /\ graph_last = [ op |-> "render", index |-> NullPt, accelKey |-> FALSE,
                      before |-> Null, view_before |-> Null ]
    /\ dirty = FALSE
    /\ invoked = "none"
ColorsIdle ==
    /\ colors = << >>
    /\ color_scale = FALSE
    /\ fill = UndefinedColor
    /\ color_last = [ op |-> "render", index |-> 0, data_color |-> Undefined ]
AxisIdle ==
    /\ tick_values = UndefinedTicks
    /\ num_ticks = Undefined
    /\ axis_type = "linear"
    /\ axis_domain = << << 0, 0 >>, << 1, 0 >> >>
    /\ scale_ticks = << >>
    /\ axis_tickValues = UndefinedTicks

\* a figure with one mark, a Bars or a Graph, and the events on it
Init ==
    /\ ColorsIdle
    /\ AxisIdle
    /\ DateIdle
    /\ \/ view_name = "Bars" /\ BarsInit /\ GraphIdle
       \/ view_name = "Graph" /\ GraphInit /\ ScalesInit /\ BarsIdle

BarsStep ==
    /\ view_name = "Bars"
    /\ BarsNext
    /\ UNCHANGED << view_name, graphvars, scalevars, colorvars, axisvars,
                    datevars >>
GraphStep ==
    /\ view_name = "Graph"
    /\ (GraphUserEvent \/ DomainChanged \/ UpdateDataBegin \/ UpdateDataEnd)
    /\ UNCHANGED << view_name, barsvars, colorvars, axisvars, datevars >>

Next == BarsStep \/ GraphStep
Spec == Init /\ [][Next]_vars

\* the colours a mark hands out
InitColors ==
    /\ view_name = "Graph"
    /\ BarsIdle /\ GraphIdle /\ AxisIdle /\ DateIdle
    /\ ColorsInit
NextColors ==
    /\ ColorsNext
    /\ UNCHANGED << view_name, barsvars, graphvars, scalevars, axisvars,
                    datevars >>
SpecColors == InitColors /\ [][NextColors]_vars

\* the tick values of an axis
InitAxis ==
    /\ view_name = "Graph"
    /\ BarsIdle /\ GraphIdle /\ ColorsIdle /\ DateIdle
    /\ AxisInit
NextAxis ==
    /\ AxisNext
    /\ UNCHANGED << view_name, barsvars, graphvars, scalevars, colorvars,
                    datevars >>
SpecAxis == InitAxis /\ [][NextAxis]_vars

\* the date format of an axis
InitDate ==
    /\ view_name = "Graph"
    /\ BarsIdle /\ GraphIdle /\ ColorsIdle /\ AxisIdle
    /\ DateInit
NextDate ==
    /\ DateScFormat
    /\ UNCHANGED << view_name, barsvars, graphvars, scalevars, colorvars,
                    axisvars >>
SpecDate == InitDate /\ [][NextDate]_vars

\* ================================================================= claims
\* the set of indices an index array (or null) selects
SelSet(s) == IF s = Null THEN {} ELSE Elems(s)

\* the last event was a click on a bar handled with select_bars enabled
BarClicked == view_name = "Bars" /\ bars_last.op = "bar_click" /\ select_bars

\* the last event was a click on a node handled by Graph.click_handler
NodeClickHandled ==
    /\ view_name = "Graph"
    /\ graph_last.op = "node_click"
    /\ event_listeners.node_clicked = "click_handler"

\* C1: with select_bars enabled, a click on bar i with neither ctrl nor shift
\* held sets idx_selected to exactly [i], whatever was selected before.
C1_PlainClickSelectsOnlyClicked ==
    (BarClicked /\ ~bars_last.ctrlKey /\ ~bars_last.shiftKey)
        => idx_selected = << bars_last.index >>

\* a plain click on a selected bar of a selection of several bars
C1_Witness ==
    /\ BarClicked /\ ~bars_last.ctrlKey /\ ~bars_last.shiftKey
    /\ Cardinality(SelSet(bars_last.before)) >= 2
    /\ bars_last.index \in SelSet(bars_last.before)
    /\ idx_selected = << bars_last.index >>

\* C2: with select_bars enabled, a ctrl-click on a bar i that is in
\* idx_selected removes i and keeps every other selected index selected.
C2_CtrlClickRemovesOnlyClicked ==
    (BarClicked /\ bars_last.ctrlKey
       /\ bars_last.index \in SelSet(bars_last.before))
        => /\ bars_last.index \notin SelSet(idx_selected)
           /\ \A j \in SelSet(bars_last.before) \ { bars_last.index } :
                 j \in SelSet(idx_selected)

\* a ctrl-click on a selected bar that leaves other bars selected
C2_Witness ==
    /\ BarClicked /\ bars_last.ctrlKey
    /\ bars_last.index \in SelSet(bars_last.before)
    /\ Cardinality(SelSet(bars_last.before)) >= 2
    /\ SelSet(idx_selected) = SelSet(bars_last.before) \ { bars_last.index }

\* C3 as stated: a shift-click on an already selected bar changes neither
\* idx_selected nor the view's selected_indices.
C3_ShiftClickOnSelectedDoesNothing ==
    (view_name = "Bars" /\ bars_last.op = "bar_click" /\ bars_last.shiftKey
       /\ bars_last.index \in SelSet(bars_last.before))
        => /\ idx_selected = bars_last.before
           /\ bars_selected_indices = bars_last.view_before

\* C3 amended: a shift-click without ctrl on an already selected bar changes
\* neither idx_selected nor the view's selected_indices.
C3_ShiftOnlyClickOnSelectedDoesNothing ==
    (view_name = "Bars" /\ bars_last.op = "bar_click" /\ bars_last.shiftKey
       /\ ~bars_last.ctrlKey
       /\ bars_last.index \in SelSet(bars_last.before))
        => /\ idx_selected = bars_last.before
           /\ bars_selected_indices = bars_last.view_before

\* a shift-click without ctrl on a selected bar, with select_bars enabled
C3_Witness ==
    /\ BarClicked /\ bars_last.shiftKey /\ ~bars_last.ctrlKey
    /\ bars_last.index \in SelSet(bars_last.before)
    /\ idx_selected = bars_last.before

\* the indices C4 expects after a shift-click on the unselected bar i
C4_Expected(old, i) ==
    IF old # {} /\ \A j \in old : i > j
    THEN old \cup ((d3_max(bars_last.before) + 1)..i)
    ELSE IF old # {} /\ \A j \in old : i < j
    THEN old \cup (i..(d3_min(bars_last.before) - 1))
    ELSE old \cup { i }

\* C4: with select_bars enabled, a shift-click on an unselected bar i keeps
\* the old selection and adds M+1..i when i is above the maximum M, i..m-1
\* when i is below the minimum m, and only i otherwise (between m and M, or
\* empty selection); no index is stored twice.
C4_ShiftClickExtendsSelection ==
    (BarClicked /\ bars_last.shiftKey
       /\ bars_last.index \notin SelSet(bars_last.before))
        => /\ SelSet(idx_selected)
                = C4_Expected(SelSet(bars_last.before), bars_last.index)
           /\ Len(idx_selected) = Cardinality(SelSet(idx_selected))

\* a shift-click two or more bars above the maximum of the selection
C4_Witness ==
    /\ BarClicked /\ bars_last.shiftKey
    /\ bars_last.before # Null
    /\ bars_last.index > d3_max(bars_last.before) + 1
    /\ Cardinality(SelSet(idx_selected))
          >= Cardinality(SelSet(bars_last.before)) + 2

\* C5: in Graph.click_handler a click on node i with the accel key toggles
\* exactly i in the model's selected; every other node keeps its membership.
C5_AccelClickTogglesNode ==
    (NodeClickHandled /\ graph_last.accelKey)
        => \A j \in Nodes :
              (j \in SelSet(selected))
                 = IF j = graph_last.index
                   THEN j \notin SelSet(graph_last.before)
                   ELSE j \in SelSet(graph_last.before)

\* an accel click that adds a node to a non-empty selection
C5_Witness ==
    /\ NodeClickHandled /\ graph_last.accelKey
    /\ SelSet(graph_last.before) # {}
    /\ graph_last.index \notin SelSet(graph_last.before)
    /\ graph_last.index \in SelSet(selected)

\* C6: in Graph.click_handler a click on node i without the accel key sets
\* the model's selected to exactly [i], whatever was selected before.
C6_PlainClickSelectsOnlyNode ==
    (NodeClickHandled /\ ~graph_last.accelKey)
        => selected = << graph_last.index >>

\* a click without accel on a selected node of a selection of several nodes
C6_Witness ==
    /\ NodeClickHandled /\ ~graph_last.accelKey
    /\ Cardinality(SelSet(graph_last.before)) >= 2
    /\ graph_last.index \in SelSet(graph_last.before)
    /\ selected = << graph_last.index >>

\* C7: a background click clears the selection: on a Bars with select_bars
\* enabled idx_selected and the view's selected_indices become null; on a
\* Graph whose interactions.click is "select", selected and the view's
\* selected_indices become null.
C7_BackgroundClickClearsSelection ==
    /\ (view_name = "Bars" /\ bars_last.op = "background_click" /\ select_bars)
          => (idx_selected = Null /\ bars_selected_indices = Null)
    /\ (view_name = "Graph" /\ graph_last.op = "background_click"
          /\ interactions.click = "select")
          => (selected = Null /\ graph_selected_indices = Null)

\* a background click on a Graph in "select" mode that had nodes selected
C7_Witness ==
    /\ view_name = "Graph" /\ graph_last.op = "background_click"
    /\ interactions.click = "select"
    /\ graph_last.before # Null /\ graph_last.view_before # Null
    /\ selected = Null

\* C8: after mouseover and mouseout events on the nodes, hovered_point is
\* the node of the last mouseover if the last event was a mouseover and null
\* if the last event was a mouseout.
C8_HoveredPointFollowsLastMouseEvent ==
    /\ (view_name = "Graph" /\ graph_last.op = "mouseover")
          => hovered_point = graph_last.index
    /\ (view_name = "Graph" /\ graph_last.op = "mouseout")
          => hovered_point = NullPt

\* a mouseover on node 1
C8_Witness ==
    /\ view_name = "Graph" /\ graph_last.op = "mouseover"
    /\ graph_last.index = 1 /\ hovered_point = 1

\* TRUE iff the tick_values attribute is a non-empty array
HasTickValues ==
    tick_values # UndefinedTicks /\ tick_values # NullTicks /\ tick_values # << >>
\* TRUE iff num_ticks is defined and not null
HasNumTicks == num_ticks # Undefined /\ num_ticks # NullPt
\* TRUE iff set_tick_values has run
TicksChosen == axis_tickValues # UndefinedTicks

\* C9: set_tick_values uses a non-empty tick_values verbatim; otherwise, if
\* num_ticks is defined and non-null, get_ticks(); otherwise the defaults of
\* the scale type: the domain (ordinal), the thinned log ticks (log), the
\* scale's own ticks (any other type).
C9_TickValuePriority ==
    TicksChosen =>
        /\ HasTickValues => axis_tickValues = tick_values
        /\ (~HasTickValues /\ HasNumTicks) => axis_tickValues = get_ticks
        /\ (~HasTickValues /\ ~HasNumTicks) =>
              /\ axis_type = "ordinal" => axis_tickValues = axis_domain
              /\ axis_type = "log"
                    => axis_tickValues = thinned_log_ticks(axis_domain)
              /\ axis_type \notin { "ordinal", "log" }
                    => axis_tickValues = scale_ticks

\* tick_values wins on a log scale although num_ticks is set as well
C9_Witness ==
    /\ TicksChosen /\ HasTickValues /\ HasNumTicks /\ num_ticks >= 2
    /\ axis_type = "log"
    /\ axis_tickValues = tick_values

\* C10: for a non-empty colors list of length len, get_colors(i) is
\* colors[i mod len], so get_colors(i) = get_colors(i + len); get_node_color
\* gives the same colour when there is no colour scale or no data colour.
C10_ColorsCycle ==
    Len(colors) > 0 =>
        /\ color_last.op = "get_colors"
              => /\ fill = colors[(color_last.index % Len(colors)) + 1]
                 /\ fill = get_colors(color_last.index + Len(colors))
        /\ (color_last.op = "get_node_color"
              /\ (~color_scale \/ color_last.data_color = Undefined))
              => fill = colors[(color_last.index % Len(colors)) + 1]

\* a node without data colour, on a mark with a colour scale, whose index
\* lies beyond the end of a list of two different colours
C10_Witness ==
    /\ color_last.op = "get_node_color"
    /\ color_scale /\ color_last.data_color = Undefined
    /\ Len(colors) = 2 /\ colors[1] # colors[2]
    /\ color_last.index = 3
    /\ fill = colors[2]

\* C11: whenever the x or y scale of a mark emits domain_changed while the
\* model is not dirty, the mark's draw is invoked.
C11_DomainChangeRedraws ==
    (view_name = "Graph" /\ graph_last.op = "domain_changed" /\ ~dirty)
        => invoked = "draw"

\* C12: after any sequence of bar clicks, node clicks and background clicks
\* from a null selection, idx_selected (Bars) and selected (Graph) are null
\* or a non-empty array, never an empty array.
C12_SelectionNeverEmptyArray ==
    /\ idx_selected # << >>
    /\ selected # << >>

\* a ctrl-click on the only selected bar has emptied the selection
C12_Witness ==
    /\ BarClicked /\ bars_last.ctrlKey
    /\ bars_last.before = << bars_last.index >>
    /\ idx_selected = Null

\* C13: whenever idx_selected is null the Bars view has unselected_style on
\* no bar and its selected_indices denotes the empty selection as well.
C13_NullSelectionStylesNothing ==
    (view_name = "Bars" /\ idx_selected = Null)
        => /\ unsel_styled = {}
           /\ SelSet(bars_selected_indices) = {}

\* C14: after any interleaving of bar clicks and data updates every index in
\* idx_selected is a bar index: 0 <= index < mark_data.length.
C14_SelectedIndicesValid ==
    view_name = "Bars"
        => \A i \in SelSet(idx_selected) : 0 <= i /\ i < mark_data_length

\* the last event was a click on a bar or on the background of a Bars
BarsClickEvent ==
    view_name = "Bars" /\ bars_last.op \in { "bar_click", "background_click" }

\* C15: when select_bars is false neither a click on a bar nor a click on
\* the background changes idx_selected or the view's selected_indices.
C15_NoSelectionWithoutSelectBars ==
    (BarsClickEvent /\ ~select_bars)
        => /\ idx_selected = bars_last.before
           /\ bars_selected_indices = bars_last.view_before

\* a background click with select_bars false while bars are selected
C15_Witness ==
    /\ BarsClickEvent /\ ~select_bars
    /\ bars_last.op = "background_click"
    /\ idx_selected # Null
    /\ idx_selected = bars_last.before

\* set_tick_values has chosen the default ticks of a log scale
LogDefaultsChosen ==
    TicksChosen /\ axis_type = "log" /\ ~HasTickValues /\ ~HasNumTicks

\* C16: on a log scale without tick_values and num_ticks, with oom the
\* orders of magnitude of the domain: every tick is used for oom < 2;
\* exactly the ticks 1, 2 or 5 times a power of ten for 2 <= oom < 7;
\* exactly the powers of ten whose exponent is a multiple of
\* s = round(oom / 10) for oom >= 7, and s is never 0.
C16_LogTicksThinnedByMagnitude ==
    LogDefaultsChosen =>
        LET oom == orders_of_magnitude(axis_domain)
            allticks == log_ticks(axis_domain)
            s == round_tenth(oom)
        IN  /\ oom < 2 * Unit => axis_tickValues = allticks
            /\ (2 * Unit <= oom /\ oom < 7 * Unit)
                  => axis_tickValues
                        = SelectSeq(allticks, LAMBDA t : t[1] \in { 1, 2, 5 })
            /\ oom >= 7 * Unit
                  => /\ s # 0
                     /\ axis_tickValues
                           = SelectSeq(allticks,
                                       LAMBDA t : t[1] = 1 /\ t[2] % s = 0)

\* a domain of 15 orders of magnitude or more, thinned with s = 2
C16_Witness ==
    /\ LogDefaultsChosen
    /\ orders_of_magnitude(axis_domain) >= 15 * Unit
    /\ round_tenth(orders_of_magnitude(axis_domain)) = 2
    /\ Len(axis_tickValues) >= 8
    /\ << 1, -1 >> \notin Elems(axis_tickValues)
    /\ << 1, -2 >> \in Elems(axis_tickValues)

\* a second, a minute, an hour, a day and a year of 365 days
OneSecond == << 0, 1000 >>
OneMinute == << 0, 60000 >>
OneHour == << 0, 3600000 >>
OneDay == << 1, 0 >>
OneYear == << 365, 0 >>

\* C17: date_sc_format picks the formats by the gap diff of the first two
\* ticks: [.%L, :%S, %I:%M] below a second, [:%S, %I:%M] below a minute,
\* [%I:%M, %I %p] below an hour, [%I %p, %b %d] below a day, [%b %d, %b %Y]
\* below a month or a year, and the three formats [%b %d, %b %Y, %Y] only
\* for a diff of more than a year.
C17_DateFormatByTickGap ==
    date_format # << >> =>
        LET diff == abs_diff(date_ticks[1], date_ticks[2])
        IN  /\ less(diff, OneSecond)
                  => date_format = << ".%L", ":%S", "%I:%M" >>
            /\ (~less(diff, OneSecond) /\ less(diff, OneMinute))
                  => date_format = << ":%S", "%I:%M" >>
            /\ (~less(diff, OneMinute) /\ less(diff, OneHour))
                  => date_format = << "%I:%M", "%I %p" >>
            /\ (~less(diff, OneHour) /\ less(diff, OneDay))
                  => date_format = << "%I %p", "%b %d" >>
            /\ (~less(diff, OneDay) /\ less(diff, OneYear))
                  => date_format = << "%b %d", "%b %Y" >>
            /\ date_format = << "%b %d", "%b %Y", "%Y" >>
                  => less(OneYear, diff)
====
